---------------------------- MODULE Spec2Model ----------------------------
(***************************************************************************)
(* State-machine model of the five data-collection scripts:                *)
(*   digital_study/geocoding_xy.py, kiosk/geocoding_public.py   (geocoding)*)
(*   kiosk/geocoding_bank.py                          (paginated search)   *)
(*   kiosk/public_api.py                              (open-data harvest)  *)
(*   kiosk/kiosk_crawler.py                           (pooled crawler)     *)
(* Each script is a separate batch process; one behaviour of the model is  *)
(* one run of one script (variable `script`, fixed by Init).  The remote   *)
(* services and the file system are the environment: every response a      *)
(* request can get is drawn with \E from a small set; a file that is       *)
(* written is written whole (to_csv does not fail).                        *)
(***************************************************************************)
EXTENDS Integers, Sequences, FiniteSets, TLC

(* ------------------------------ bounds --------------------------------- *)
\* rows of the input table of a geocoding script
MaxRows == 2
\* items a search page can carry (the source asks for 'size': 30)
MaxItems == 2
\* largest page total the search service reports
MaxPages == 3
\* rows in one reply of the open-data service (the source asks for 1000)
MaxApiRows == 2
\* replies with rows the open-data service gives before it runs out
MaxApiPages == 2
\* listing pages crawled: range(start_page, end_page + 1), 973 in the source
end_page == 3
\* ThreadPoolExecutor(max_workers=...), 10 in the source
max_workers == 2

(* ------------------------- program constants --------------------------- *)
page_size == 1000
start_page == 1

(* ------------------------- values and helpers -------------------------- *)
\* Python's None
None == "None"
\* a local name that was never assigned (reading it raises UnboundLocalError)
UNBOUND == "UNBOUND"
\* the numeric JSON value 0 (falsy in Python)
Zero == "0"

GeoScripts == {"geocoding_xy", "geocoding_public"}
KeyScripts == GeoScripts \cup {"geocoding_bank", "public_api"}
Scripts == KeyScripts \cup {"kiosk_crawler"}

\* mutant: `if x is not None and y is not None` instead of `if x and y`
Truthy_NotNone(v) == v # None

\* Python truthiness of a coordinate value: `if x and y`
Truthy(v) == v \notin {None, Zero, ""}

\* address_query values a table cell can hold: empty string, NaN, an address
Addresses == {"", "NaN", "addr"}

\* coordinate values the remote side can put in result.point
XVals == {None, Zero, "127.0", "126.9"}
YVals == {None, Zero, "37.5"}

\* the for-loop's list ['ROAD', 'PARCEL']
address_types == <<"ROAD", "PARCEL">>

\* 'crs' request parameter of each geocoding script
crs(s) == IF s = "geocoding_xy" THEN "EPSG:5179" ELSE "EPSG:4326"

\* outcomes of one requests.get + raise_for_status + json + status lookup
GeoResponses ==
       [kind : {"json"}, status : {"OK"}, x : XVals, y : YVals]
  \cup [kind : {"json"}, status : {"NOT_FOUND", "ERROR"}, x : {None}, y : {None}]
  \cup [kind : {"net_error", "json_error", "sys_error"}, status : {None},
        x : {None}, y : {None}]

NoResponse == [kind |-> None, status |-> None, x |-> None, y |-> None]

(* --------------------------- strings and dicts ------------------------- *)
\* str.upper(), character by character
UpperChar(c) ==
  CASE c = "a" -> "A" [] c = "t" -> "T" [] c = "m" -> "M"
    [] c = "k" -> "K" [] c = "b" -> "B" [] OTHER -> c
Upper(str) == [i \in 1..Len(str) |-> UpperChar(str[i])]

\* Python's `sub in str` for strings
Contains(str, sub) ==
  \E i \in 0..(Len(str) - Len(sub)) : \A j \in 1..Len(sub) : str[i + j] = sub[j]

\* dict.get(k, default)
Get(d, k, default) == IF k \in DOMAIN d THEN d[k] ELSE default

\* a JSON null where a dict is expected: calling .get on it raises
NullDict == [null |-> TRUE]
IsNull(d) == "null" \in DOMAIN d

ATM == <<"A", "T", "M">>
\* the region substring (two syllables, standing for the two Hangul characters)
Region == <<"seo", "ul">>

KB == <<"K", "B">>
KBAtm == <<"K", "B", "a", "T", "m">>
SeoulRoad == [road |-> <<"seo", "ul", "jung">>]
OtherRoad == [road |-> <<"ul", "seo">>]
ParcelOnly == [parcel |-> <<"seo", "ul", "jung">>]
Point == [x |-> "127.0", y |-> "37.5"]

\* raw items of a search page: titles with and without "atm", road addresses
\* in and out of the region or absent, an item without 'point', and items
\* whose 'address' is null
Items ==
  { [title |-> KB, address |-> SeoulRoad, point |-> Point],
    [title |-> KB, address |-> SeoulRoad],
    [title |-> KB, address |-> OtherRoad, point |-> Point],
    [title |-> KB, address |-> ParcelOnly, point |-> Point],
    [title |-> KBAtm, address |-> SeoulRoad, point |-> Point],
    [title |-> KBAtm, address |-> OtherRoad, point |-> Point],
    [title |-> KBAtm, address |-> NullDict, point |-> Point],
    [title |-> KB, address |-> NullDict, point |-> Point] }

ItemSeqs == UNION { [1..n -> Items] : n \in 0..MaxItems }

\* the first entry of bank_list (six search keywords in the source; every
\* query runs the same search_place, and main only concatenates the results)
bank_list == <<"woori">>

\* replies to the request for page cp.  `result` says whether response.result
\* holds an 'items' list; `total` is response.page.total and `total_results`
\* response.record.total.  The service is consistent: it reports at least one
\* page, the same total on every page (only page 1's is read), and no items
\* with a record total of 0.
SearchResponses(cp, tp) ==
       { [kind |-> "json", status |-> "OK", total |-> t, total_results |-> ri[1],
          result |-> "items", items |-> ri[2]] :
            t \in (IF cp = 1 THEN 1..MaxPages ELSE {tp}),
            ri \in { q \in (IF cp = 1 THEN {0, 1} ELSE {1}) \X ItemSeqs :
                       q[1] = 0 => q[2] = <<>> } }
  \cup { [kind |-> "json", status |-> "OK", total |-> t, total_results |-> r,
          result |-> "none", items |-> <<>>] :
            t \in (IF cp = 1 THEN 1..MaxPages ELSE {tp}),
            r \in (IF cp = 1 THEN {0, 1} ELSE {1}) }
  \cup { [kind |-> "json", status |-> st, total |-> 0, total_results |-> 0,
          result |-> "none", items |-> <<>>] : st \in {"NOT_FOUND", "ERROR"} }
  \cup { [kind |-> k, status |-> None, total |-> 0, total_results |-> 0,
          result |-> "none", items |-> <<>>] :
            k \in {"net_error", "json_error", "sys_error"} }

\* the output file: absent, or a table of rows
NoFile == [exists |-> FALSE, rows |-> <<>>]
CsvFile(rows) == [exists |-> TRUE, rows |-> rows]

\* input tables: rows carry their position (the other columns) and an address
RowsOfLen(n) == { t \in [1..n -> [id : 1..n, addr : Addresses]] :
                    \A i \in 1..n : t[i].id = i }
Tables == UNION { RowsOfLen(n) : n \in 0..MaxRows }

VARIABLES
  script,            \* which script this run executes
  keyFile,           \* credential file on disk: "present" | "absent"
  inputFile,         \* input table on disk: "present" | "absent"
  table,             \* content of the input table file
  pc,                \* position of main
  key,               \* local `key` of main
  index,             \* position of df.iterrows()
  attempt,           \* position of `for address_type in [...]` (0 = not in it)
  data,              \* last response received by get_coordinate
  trace,             \* requests of the current get_coordinate call, with replies
  ret,               \* value returned by get_coordinate: <<x, y>>
  all_results_list,  \* accumulated result rows
  n_requests,        \* network requests issued so far in the run
  query_i,           \* position of `for query in bank_list`
  current_page,      \* search_place: page to request next
  total_pages,       \* search_place: page total read from page 1
  all_items,         \* search_place: accumulated (title, x, y)
  sp_requests,       \* page indices requested by the current search_place call
  start_index,       \* fetch_all_kiosk_data: first row of the next range
  all_data_rows,     \* fetch_all_kiosk_data: accumulated rows
  api_trace,         \* ranges requested by fetch_all_kiosk_data, with replies
  session,           \* crawler: sessions created by requests_retry_session()
  task,              \* crawler: state of the future of each page
  task_session,      \* crawler: session passed to extract_page for each page
  result,            \* crawler: value returned by extract_page for each page
  completed,         \* crawler: pages in the order their futures completed
  collected,         \* crawler: futures as_completed has yielded to main
  all_dfs,           \* crawler: page frames kept by main
  outfile            \* output file on disk: NoFile or CsvFile(rows)

geoVars == <<index, attempt, trace, ret>>
bankVars == <<query_i, current_page, total_pages, all_items, sp_requests>>
envVars == <<script, keyFile, inputFile, table>>

apiVars == <<start_index, all_data_rows, api_trace>>
crawlVars == <<session, task, task_session, result, completed, collected,
               all_dfs>>
nonGeoVars == <<bankVars, apiVars, crawlVars>>
nonBankVars == <<geoVars, apiVars, crawlVars>>
nonApiVars == <<geoVars, bankVars, crawlVars>>
nonCrawlVars == <<geoVars, bankVars, apiVars>>

vars == <<envVars, pc, key, data, all_results_list, n_requests, outfile,
          geoVars, bankVars, apiVars, crawlVars>>

(* ------------------------------ geocoding ------------------------------ *)
\* `if not address_query or pd.isna(address_query)`
IsSkipped(address_query) == address_query = "" \/ address_query = "NaN"

\* mutant: the final `except Exception` clause is missing
Catches_NoCatchAll(kind) == kind \in {"net_error", "json_error"}

\* exception classes the three except clauses of get_coordinate catch
Catches(kind) == kind \in {"net_error", "json_error", "sys_error"}

\* mutant: NOT_FOUND returns at once, like an API error
StatusBranch_NoFallback(resp) ==
  IF resp.status = "OK"
    THEN IF Truthy(resp.x) /\ Truthy(resp.y) THEN "return_xy" ELSE "continue"
    ELSE "return_none"

\* mutant: an API error falls through to the next address type
StatusBranch_ErrorRetries(resp) ==
  IF resp.status = "OK"
    THEN IF Truthy(resp.x) /\ Truthy(resp.y) THEN "return_xy" ELSE "continue"
    ELSE "continue"

\* What one pass of the loop body decides for a parsed response:
\* "return_xy", "return_none" or "continue" (fall to the next address_type)
StatusBranch(resp) ==
  IF resp.status = "OK"
    THEN IF Truthy(resp.x) /\ Truthy(resp.y) THEN "return_xy" ELSE "continue"
    ELSE IF resp.status = "NOT_FOUND" THEN "continue" ELSE "return_none"

geo_read_key ==
  /\ script \in GeoScripts
  /\ pc = "read_key"
  /\ IF keyFile = "present"
       THEN key' = "KEY" /\ pc' = "read_input"
       ELSE key' = key /\ pc' = "done"
  /\ UNCHANGED <<script, keyFile, inputFile, table, index, attempt, data, trace,
                 ret, all_results_list, n_requests, outfile, nonGeoVars>>

geo_read_input ==
  /\ script \in GeoScripts
  /\ pc = "read_input"
  /\ IF inputFile = "present"
       THEN pc' = "loop" /\ index' = 1
       ELSE pc' = "done" /\ index' = index
  /\ UNCHANGED <<script, keyFile, inputFile, table, key, attempt, data, trace,
                 ret, all_results_list, n_requests, outfile, nonGeoVars>>

\* loop header of main and the entry of get_coordinate up to the skip test
geo_next_row ==
  /\ script \in GeoScripts
  /\ pc = "loop"
  /\ IF index <= Len(table)
       THEN IF IsSkipped(table[index].addr)
              THEN /\ ret' = <<None, None>>
                   /\ attempt' = 0
                   /\ pc' = "append"
              ELSE /\ ret' = ret
                   /\ attempt' = 1
                   /\ pc' = "request"
       ELSE /\ pc' = "write"
            /\ UNCHANGED <<ret, attempt>>
  /\ trace' = <<>>
  /\ data' = NoResponse
  /\ UNCHANGED <<script, keyFile, inputFile, table, key, index,
                 all_results_list, n_requests, outfile, nonGeoVars>>

\* one pass of `for address_type in ['ROAD', 'PARCEL']`: request, reply, branch
get_coordinate_attempt ==
  /\ script \in GeoScripts
  /\ pc = "request"
  /\ \E resp \in GeoResponses :
       /\ data' = resp
       /\ trace' = Append(trace, [type |-> address_types[attempt],
                                  address |-> table[index].addr,
                                  crs |-> crs(script), resp |-> resp])
       /\ n_requests' = n_requests + 1
       /\ IF resp.kind # "json"
            THEN IF Catches(resp.kind)
                   THEN ret' = <<None, None>> /\ pc' = "append" /\ attempt' = 0
                   ELSE ret' = ret /\ pc' = "crashed" /\ attempt' = 0
            ELSE CASE StatusBranch(resp) = "return_xy" ->
                        ret' = <<resp.x, resp.y>> /\ pc' = "append" /\ attempt' = 0
                   [] StatusBranch(resp) = "return_none" ->
                        ret' = <<None, None>> /\ pc' = "append" /\ attempt' = 0
                   [] OTHER ->
                        IF attempt < Len(address_types)
                          THEN ret' = ret /\ pc' = "request" /\ attempt' = attempt + 1
                          ELSE ret' = <<None, None>> /\ pc' = "append" /\ attempt' = 0
  /\ UNCHANGED <<script, keyFile, inputFile, table, key, index,
                 all_results_list, outfile, nonGeoVars>>

\* all_results_list.append(original_data + [x, y]); next row
geo_append ==
  /\ script \in GeoScripts
  /\ pc = "append"
  /\ all_results_list' = Append(all_results_list,
        [id |-> table[index].id, addr |-> table[index].addr,
         longitude |-> ret[1], latitude |-> ret[2]])
  /\ index' = index + 1
  /\ pc' = "loop"
  /\ UNCHANGED <<script, keyFile, inputFile, table, key, attempt, data, trace,
                 ret, n_requests, outfile, nonGeoVars>>

\* `if not all_results_list: ... else: results_df.to_csv(...)`
geo_write ==
  /\ script \in GeoScripts
  /\ pc = "write"
  /\ outfile' = IF all_results_list = <<>> THEN outfile
                                            ELSE CsvFile(all_results_list)
  /\ pc' = "done"
  /\ UNCHANGED <<script, keyFile, inputFile, table, key, index, attempt, data,
                 trace, ret, all_results_list, n_requests, nonGeoVars>>

(* --------------------- geocoding_bank: search_place -------------------- *)
\* mutant: the title is not upper-cased before the test
title_has_atm_NoUpper(title) == Contains(title, ATM)

\* `"ATM" in title.upper()`
title_has_atm(title) == Contains(Upper(title), ATM)

\* mutant: only the first character of the region name is looked for
in_region_FirstChar(road_address) == Contains(road_address, <<Region[1]>>)

\* `"Seoul" in road_address` (the region name in Hangul)
in_region(road_address) == Contains(road_address, Region)

\* item['point'], point['x'], point['y'] raise no KeyError
has_point(item) ==
  /\ "point" \in DOMAIN item
  /\ "x" \in DOMAIN item.point
  /\ "y" \in DOMAIN item.point

NoCounts == [added |-> 0, filtered_seoul |-> 0, filtered_atm |-> 0]

\* `for item in result['items']`: from item i on, with the list and the three
\* counters so far; `raised` is set when an item raises out of the loop.
\* (The counters are only printed; main's state does not keep them.)
RECURSIVE item_loop(_, _, _)
item_loop(items, i, st) ==
  IF i > Len(items) THEN st
  ELSE
    LET item == items[i]
        title == Get(item, "title", <<"N", "/", "A">>)
    IN IF title_has_atm(title)
         THEN item_loop(items, i + 1,
                        [st EXCEPT !.counts.filtered_atm = @ + 1])
       ELSE IF IsNull(Get(item, "address", <<>>))
         THEN [st EXCEPT !.raised = TRUE]
       ELSE IF in_region(Get(Get(item, "address", <<>>), "road", <<>>))
         THEN IF has_point(item)
                THEN item_loop(items, i + 1,
                       [st EXCEPT !.all_items = Append(@, <<title, item.point.x, item.point.y>>),
                                  !.counts.added = @ + 1])
                ELSE item_loop(items, i + 1, st)
       ELSE item_loop(items, i + 1,
                      [st EXCEPT !.counts.filtered_seoul = @ + 1])

\* mutant: an exception skips the page instead of leaving the loop
page_branch_ExceptionContinues(resp, cp) ==
  IF resp.kind # "json" THEN "continue"
  ELSE IF resp.status # "OK" THEN "break"
  ELSE IF cp = 1 /\ resp.total_results = 0 THEN "break"
  ELSE IF resp.result # "items" THEN "continue"
  ELSE "items"

\* What one pass of the while loop does with the reply to page `cp`:
\* "break", "continue" (no items: next page) or "items" (run the item loop)
page_branch(resp, cp) ==
  IF resp.kind # "json" THEN "break"
  ELSE IF resp.status # "OK" THEN "break"
  ELSE IF cp = 1 /\ resp.total_results = 0 THEN "break"
  ELSE IF resp.result # "items" THEN "continue"
  ELSE "items"

\* mutant: the while test lets one page past the total through
loop_test_OffByOne(cp, tp) == cp <= tp + 1

\* `while current_page <= total_pages`
loop_test(cp, tp) == cp <= tp

\* mutant: the except clause binds an empty key instead of leaving it unset
bank_read_key_EmptyKey ==
  /\ script = "geocoding_bank"
  /\ pc = "read_key"
  /\ key' = IF keyFile = "present" THEN "KEY" ELSE ""
  /\ query_i' = 1
  /\ pc' = "loop"
  /\ UNCHANGED <<envVars, data, all_results_list, n_requests, outfile,
                 current_page, total_pages, all_items, sp_requests,
                 nonBankVars>>

\* main's try/except around open('key.txt'): no return in the except clause
bank_read_key ==
  /\ script = "geocoding_bank"
  /\ pc = "read_key"
  /\ key' = IF keyFile = "present" THEN "KEY" ELSE key
  /\ query_i' = 1
  /\ pc' = "loop"
  /\ UNCHANGED <<envVars, data, all_results_list, n_requests, outfile,
                 current_page, total_pages, all_items, sp_requests,
                 nonBankVars>>

\* `for query in bank_list`: evaluate `search_place(key, query)` up to the
\* while loop; reading an unassigned `key` raises into main's except clause
bank_next_query ==
  /\ script = "geocoding_bank"
  /\ pc = "loop"
  /\ IF query_i > Len(bank_list) \/ key = UNBOUND
       THEN /\ pc' = "write"
            /\ UNCHANGED <<current_page, total_pages, all_items>>
       ELSE /\ pc' = "while"
            /\ current_page' = 1
            /\ total_pages' = 1
            /\ all_items' = <<>>
  /\ sp_requests' = <<>>
  /\ data' = NoResponse
  /\ UNCHANGED <<envVars, key, all_results_list, n_requests, outfile, query_i,
                 nonBankVars>>

\* `while current_page <= total_pages`: requests.get for page current_page
search_place_request ==
  /\ script = "geocoding_bank"
  /\ pc = "while"
  /\ loop_test(current_page, total_pages)
  /\ \E resp \in SearchResponses(current_page, total_pages) : data' = resp
  /\ sp_requests' = Append(sp_requests, current_page)
  /\ n_requests' = n_requests + 1
  /\ pc' = "process"
  /\ UNCHANGED <<envVars, key, all_results_list, outfile, query_i, current_page,
                 total_pages, all_items, nonBankVars>>

\* the rest of the loop body: status test, page total, item loop, page += 1.
\* `data` is rebound by the next pass; the model forgets it when one follows.
search_place_process ==
  /\ script = "geocoding_bank"
  /\ pc = "process"
  /\ LET branch == page_branch(data, current_page)
         tp == IF current_page = 1 /\ data.kind = "json" /\ data.status = "OK"
                 THEN data.total ELSE total_pages
         st == item_loop(data.items, 1,
                         [all_items |-> all_items, counts |-> NoCounts,
                          raised |-> FALSE])
         brk == branch = "break" \/ (branch = "items" /\ st.raised)
         cp == IF brk THEN current_page ELSE current_page + 1
     IN /\ total_pages' = tp
        /\ current_page' = cp
        /\ all_items' = IF branch = "items" THEN st.all_items ELSE all_items
        /\ pc' = IF brk THEN "break" ELSE "while"
        /\ data' = IF brk \/ ~loop_test(cp, tp) THEN data ELSE NoResponse
  /\ UNCHANGED <<envVars, key, all_results_list, n_requests, outfile, query_i,
                 sp_requests, nonBankVars>>

\* `return all_items`, then main's `for title, x, y in locations: append`
search_place_return ==
  /\ script = "geocoding_bank"
  /\ \/ pc = "break"
     \/ pc = "while" /\ ~loop_test(current_page, total_pages)
  /\ all_results_list' = all_results_list \o
        [i \in 1..Len(all_items) |->
           <<bank_list[query_i], all_items[i][1], all_items[i][2], all_items[i][3]>>]
  /\ query_i' = query_i + 1
  /\ pc' = "loop"
  /\ UNCHANGED <<envVars, key, data, n_requests, outfile, current_page,
                 total_pages, all_items, sp_requests, nonBankVars>>

bank_write ==
  /\ script = "geocoding_bank"
  /\ pc = "write"
  /\ outfile' = IF all_results_list = <<>> THEN outfile
                                            ELSE CsvFile(all_results_list)
  /\ pc' = "done"
  /\ UNCHANGED <<envVars, key, data, all_results_list, n_requests, bankVars,
                 nonBankVars>>

(* ------------------ public_api: fetch_all_kiosk_data ------------------- *)
required_columns == <<"MGTNO", "OPNSFTEAMNM", "KIOSKNM", "ESBPLCADDR">>

\* rows of the service: with the four columns, or with none of them
FullRow(n) == [MGTNO |-> ToString(n), OPNSFTEAMNM |-> "gu", KIOSKNM |-> "kiosk",
               ESBPLCADDR |-> "addr", RNUM |-> ToString(n)]
BareRow(n) == [RNUM |-> ToString(n)]

\* the 'row' arrays a reply to the range starting at `start` can carry
RowSeqs(start) ==
  UNION { { rows \in [1..n -> { FullRow(k) : k \in start..(start + n - 1) }
                          \cup { BareRow(k) : k \in start..(start + n - 1) }] :
              \A i \in 1..n : rows[i].RNUM = ToString(start + i - 1) } :
          n \in 0..MaxApiRows }

\* replies to one range request: the service key with its rows, a RESULT
\* object (INFO-200: no data; anything else: an error), an object with
\* neither, or an exception of requests.get / raise_for_status / json
ApiResponses(start) ==
       { [kind |-> "json", body |-> "service", code |-> None, rows |-> rows] :
           rows \in { r \in RowSeqs(start) :
                        r # <<>> => (start - 1) \div page_size < MaxApiPages } }
  \cup { [kind |-> "json", body |-> "RESULT", code |-> c, rows |-> <<>>] :
           c \in {"INFO-200", "ERROR-500"} }
  \cup { [kind |-> "json", body |-> "unknown", code |-> None, rows |-> <<>>] }
  \cup { [kind |-> k, body |-> None, code |-> None, rows |-> <<>>] :
           k \in {"net_error", "json_error", "sys_error"} }

\* mutant: the test for an empty 'row' list is missing
api_continues_NoEmptyTest(resp) ==
  /\ resp.kind = "json"
  /\ resp.body = "service"

\* whether one pass of `while True` goes on to the next range
api_continues(resp) ==
  /\ resp.kind = "json"
  /\ resp.body = "service"
  /\ resp.rows # <<>>

api_read_key ==
  /\ script = "public_api"
  /\ pc = "read_key"
  /\ IF keyFile = "present"
       THEN key' = "KEY" /\ pc' = "fetch" /\ start_index' = 1
       ELSE key' = key /\ pc' = "done" /\ start_index' = start_index
  /\ UNCHANGED <<envVars, data, all_results_list, n_requests, outfile,
                 all_data_rows, api_trace, nonApiVars>>

\* one pass of `while True`: request the range, then break or extend
fetch_all_kiosk_data_page ==
  /\ script = "public_api"
  /\ pc = "fetch"
  /\ \E resp \in ApiResponses(start_index) :
       /\ data' = resp
       /\ api_trace' = Append(api_trace,
            [start_index |-> start_index,
             end_index |-> start_index + page_size - 1, resp |-> resp])
       /\ n_requests' = n_requests + 1
       /\ IF api_continues(resp)
            THEN /\ all_data_rows' = all_data_rows \o resp.rows
                 /\ start_index' = start_index + page_size
                 /\ pc' = "fetch"
            ELSE /\ pc' = "returned"
                 /\ UNCHANGED <<all_data_rows, start_index>>
  /\ UNCHANGED <<envVars, key, all_results_list, outfile, nonApiVars>>

\* df.columns of pd.DataFrame(rows): the union of the rows' keys
df_columns(rows) == UNION { DOMAIN rows[i] : i \in 1..Len(rows) }
in_columns(rows, c) == c \in df_columns(rows)
available_columns(rows) ==
  SelectSeq(required_columns, LAMBDA c : in_columns(rows, c))
\* df[available_columns]: a missing cell is NaN
df_selected(rows, cols) ==
  [i \in 1..Len(rows) |-> [j \in 1..Len(cols) |-> Get(rows[i], cols[j], "NaN")]]

\* main after fetch_all_kiosk_data returned
api_main_write ==
  /\ script = "public_api"
  /\ pc = "returned"
  /\ outfile' = IF all_data_rows = <<>> THEN outfile
                ELSE IF available_columns(all_data_rows) = <<>> THEN outfile
                ELSE CsvFile(df_selected(all_data_rows,
                                         available_columns(all_data_rows)))
  /\ pc' = "done"
  /\ UNCHANGED <<envVars, key, data, all_results_list, n_requests, apiVars,
                 nonApiVars>>

(* ---------------------------- kiosk_crawler ----------------------------- *)
page_range == start_page..end_page

\* what extract_page returns: None on an exception or a page without
\* thead/tbody, else a frame that is empty or has rows
ExtractOutcomes == {"exception", "no_table", "empty_table", "rows"}
extract_page(outcome) ==
  CASE outcome = "exception" -> "None"
    [] outcome = "no_table" -> "None"
    [] outcome = "empty_table" -> "empty_df"
    [] OTHER -> "df"

\* mutant: only None is filtered
keeps_OnlyNone(result_df) == result_df # "None"

\* `result_df is not None and not result_df.empty`
keeps(result_df) == result_df # "None" /\ result_df # "empty_df"

Running == { p \in page_range : task[p] = "running" }
Queued == { p \in page_range : task[p] = "queued" }
Submitted == { p \in page_range : task[p] # "new" }

\* `session = requests_retry_session()` inside the with block
crawler_open ==
  /\ script = "kiosk_crawler"
  /\ pc = "start"
  /\ session' = session + 1
  /\ pc' = "submit"
  /\ UNCHANGED <<envVars, key, data, all_results_list, n_requests, outfile,
                 task, task_session, result, completed, collected, all_dfs,
                 nonCrawlVars>>

\* the dict comprehension: executor.submit(extract_page, session, page)
crawler_submit ==
  /\ script = "kiosk_crawler"
  /\ pc = "submit"
  /\ LET page == start_page + Cardinality(Submitted)
     IN /\ task' = [task EXCEPT ![page] = "queued"]
        /\ task_session' = [task_session EXCEPT ![page] = session]
        /\ pc' = IF page = end_page THEN "collect" ELSE "submit"
  /\ UNCHANGED <<envVars, key, data, all_results_list, n_requests, outfile,
                 session, result, completed, collected, all_dfs, nonCrawlVars>>

\* an idle pool thread takes the oldest queued task and sends its request
worker_start ==
  /\ script = "kiosk_crawler"
  /\ Queued # {}
  /\ Cardinality(Running) < max_workers
  /\ LET page == CHOOSE p \in Queued : \A q \in Queued : p <= q
     IN task' = [task EXCEPT ![page] = "running"]
  /\ n_requests' = n_requests + 1
  /\ UNCHANGED <<envVars, pc, key, data, all_results_list, outfile, session,
                 task_session, result, completed, collected, all_dfs,
                 nonCrawlVars>>

\* extract_page returns on some pool thread; the future completes
worker_finish ==
  /\ script = "kiosk_crawler"
  /\ \E page \in Running, outcome \in ExtractOutcomes :
       /\ result' = [result EXCEPT ![page] = extract_page(outcome)]
       /\ task' = [task EXCEPT ![page] = "done"]
       /\ completed' = Append(completed, page)
  /\ UNCHANGED <<envVars, pc, key, data, all_results_list, n_requests, outfile,
                 session, task_session, collected, all_dfs, nonCrawlVars>>

\* one pass of `for future in as_completed(future_to_page)`
crawler_collect ==
  /\ script = "kiosk_crawler"
  /\ pc = "collect"
  /\ collected < Len(completed)
  /\ LET page == completed[collected + 1]
     IN all_dfs' = IF keeps(result[page]) THEN Append(all_dfs, page) ELSE all_dfs
  /\ collected' = collected + 1
  /\ UNCHANGED <<envVars, pc, key, data, all_results_list, n_requests, outfile,
                 session, task, task_session, result, completed, nonCrawlVars>>

\* as_completed is exhausted and the with block exits: shutdown(wait=True)
crawler_join ==
  /\ script = "kiosk_crawler"
  /\ pc = "collect"
  /\ collected = Cardinality(page_range)
  /\ Running = {} /\ Queued = {}
  /\ pc' = "concat"
  /\ UNCHANGED <<envVars, key, data, all_results_list, n_requests, outfile,
                 crawlVars, nonCrawlVars>>

\* `if all_dfs: final_df = pd.concat(all_dfs); final_df.to_csv(...)`
crawler_write ==
  /\ script = "kiosk_crawler"
  /\ pc = "concat"
  /\ outfile' = IF all_dfs = <<>> THEN outfile ELSE CsvFile(all_dfs)
  /\ pc' = "done"
  /\ UNCHANGED <<envVars, key, data, all_results_list, n_requests, crawlVars,
                 nonCrawlVars>>

(* ------------------------------- claims -------------------------------- *)
\* get_coordinate has returned to main for the current row
Returned == script \in GeoScripts /\ pc = "append"
\* an attempt that did not produce a coordinate pair
AttemptFailed(t) == ~(t.resp.kind = "json" /\ StatusBranch(t.resp) = "return_xy")
IsNotFound(t) == t.resp.kind = "json" /\ t.resp.status = "NOT_FOUND"
IsApiError(t) == t.resp.kind = "json" /\ t.resp.status \notin {"OK", "NOT_FOUND"}

\* C1: in both geocoding scripts main appends exactly one result row per input
\* row, in source-row order, whatever each remote call answers: while looping
\* the list holds the rows before the current one, after the loop it has as
\* many rows as the table, main never crashes, and an unresolved row carries
\* two empty coordinate fields.
C1_OneRowPerQuery ==
  script \in GeoScripts =>
    /\ pc # "crashed"
    /\ pc \in {"loop", "request", "append"} => Len(all_results_list) = index - 1
    /\ pc = "write" => Len(all_results_list) = Len(table)
    /\ (pc = "done" /\ keyFile = "present" /\ inputFile = "present")
          => Len(all_results_list) = Len(table)
    /\ Len(all_results_list) <= Len(table)
    /\ \A i \in 1..Len(all_results_list) :
          /\ all_results_list[i].id = table[i].id
          /\ all_results_list[i].addr = table[i].addr
          /\ \/ all_results_list[i].longitude = None /\ all_results_list[i].latitude = None
             \/ Truthy(all_results_list[i].longitude) /\ Truthy(all_results_list[i].latitude)

C1_Witness ==
  /\ script \in GeoScripts
  /\ pc = "done"
  /\ Len(table) = 2
  /\ Len(all_results_list) = 2
  /\ all_results_list[1].longitude = None /\ all_results_list[1].latitude = None
  /\ table[1].addr = "addr"
  /\ Truthy(all_results_list[2].longitude)
  /\ table[2].addr = "addr"

\* C2: a query whose ROAD attempt returns NOT_FOUND gets exactly one fallback
\* attempt, with PARCEL, before get_coordinate gives up; a query whose ROAD
\* and PARCEL attempts both fail returns (None, None) as a value and nothing
\* is raised to the caller.
C2_OneFallback ==
  script \in GeoScripts =>
    /\ pc # "crashed"
    /\ Len(trace) <= 2
    /\ (Returned /\ Len(trace) >= 1 /\ IsNotFound(trace[1]))
          => /\ Len(trace) = 2
             /\ trace[1].type = "ROAD"
             /\ trace[2].type = "PARCEL"
    /\ (Returned /\ Len(trace) = 2 /\ AttemptFailed(trace[1]) /\ AttemptFailed(trace[2]))
          => ret = <<None, None>>

C2_Witness ==
  /\ Returned
  /\ Len(trace) = 2
  /\ IsNotFound(trace[1])
  /\ trace[2].type = "PARCEL"
  /\ IsNotFound(trace[2])
  /\ ret = <<None, None>>

\* C3: an attempt answered with a well-formed status that is neither OK nor
\* NOT_FOUND ends the query at once: it is the last request of the query, the
\* query returns (None, None), so an API error on ROAD is never followed by a
\* PARCEL request; the batch goes on (the row is appended, the loop continues).
C3_ApiErrorStops ==
  script \in GeoScripts =>
    \A i \in 1..Len(trace) :
      IsApiError(trace[i]) =>
        /\ i = Len(trace)
        /\ ret = <<None, None>>
        /\ pc \in {"append", "loop"}
        /\ pc = "append" => ENABLED geo_append
        /\ pc = "loop" =>
             /\ Len(all_results_list) = index - 1
             /\ all_results_list[index - 1].longitude = None
             /\ all_results_list[index - 1].latitude = None
             /\ ENABLED geo_next_row

C3_Witness ==
  /\ script \in GeoScripts
  /\ pc = "loop"
  /\ index = 2
  /\ Len(table) = 2
  /\ Len(trace) = 1
  /\ trace[1].type = "ROAD"
  /\ IsApiError(trace[1])
  /\ all_results_list[1].longitude = None
  /\ n_requests = 1

\* ---- search_place ----
\* claim-side reading of an item, written without the model's filter operators
C_AnyCaseAtm(title) ==
  \E i \in 1..(Len(title) - 2) :
    /\ title[i] \in {"a", "A"}
    /\ title[i + 1] \in {"t", "T"}
    /\ title[i + 2] \in {"m", "M"}
C_NullAddress(item) == "null" \in DOMAIN item.address
C_SeoulRoad(item) ==
  /\ "road" \in DOMAIN item.address
  /\ \E i \in 1..(Len(item.address.road) - 1) :
       item.address.road[i] = "seo" /\ item.address.road[i + 1] = "ul"
\* the item loop raises on this item
C_Raises(item) == ~C_AnyCaseAtm(item.title) /\ C_NullAddress(item)
\* items of a page the item loop reaches: those before the first one raising
C_Reached(items) ==
  LET bad == { i \in 1..Len(items) : C_Raises(items[i]) }
  IN IF bad = {} THEN items
     ELSE SubSeq(items, 1, (CHOOSE i \in bad : \A j \in bad : i <= j) - 1)
\* the search_place call is about to run the item loop on the page in `data`
C_ProcessItems ==
  /\ script = "geocoding_bank"
  /\ pc = "process"
  /\ data.kind = "json" /\ data.status = "OK" /\ data.result = "items"
  /\ ~(current_page = 1 /\ data.total_results = 0)
C_Tuples(items) ==
  [i \in 1..Len(items) |-> <<items[i].title, items[i].point.x, items[i].point.y>>]

\* C4: no item whose title contains "ATM" in any letter case is ever in the
\* list search_place builds or in main's list, whatever its road address and
\* page; and the exclusion test comes first: an ATM item is dropped before its
\* address is looked at (a page whose only null-address items are ATM items
\* raises nothing, the loop goes on and adds at most the non-ATM items).
C4_AtmExcluded ==
  /\ [](script = "geocoding_bank" =>
          /\ \A i \in 1..Len(all_items) : ~C_AnyCaseAtm(all_items[i][1])
          /\ \A i \in 1..Len(all_results_list) : ~C_AnyCaseAtm(all_results_list[i][2]))
  /\ [][C_ProcessItems =>
          /\ Len(all_items') - Len(all_items)
               <= Len(SelectSeq(data.items, LAMBDA it : ~C_AnyCaseAtm(it.title)))
          /\ (\A i \in 1..Len(data.items) :
                C_NullAddress(data.items[i]) => C_AnyCaseAtm(data.items[i].title))
               => pc' = "while"]_vars

C4_Witness ==
  /\ script = "geocoding_bank"
  /\ pc = "while"
  /\ sp_requests = <<1, 2>>
  /\ current_page = 3
  /\ data.result = "items"
  /\ Len(data.items) = 2
  /\ C_AnyCaseAtm(data.items[1].title) /\ C_NullAddress(data.items[1])
  /\ C_AnyCaseAtm(data.items[2].title) /\ C_SeoulRoad(data.items[2])
  /\ Len(all_items) = 1

\* an item that ends up in the output: no ATM, road in the region, a point
C5_Kept(item) ==
  /\ ~C_AnyCaseAtm(item.title)
  /\ C_SeoulRoad(item)
  /\ "point" \in DOMAIN item

\* C5 (amended): an item the item loop reaches whose title has no "ATM" is
\* added, in page order, if and only if its road address contains the region
\* name AND the item carries a 'point' with x and y; an item without a road
\* address, or without a point, is not added.
C5_RegionAndPoint ==
  [][C_ProcessItems =>
       all_items' = all_items \o C_Tuples(SelectSeq(C_Reached(data.items), C5_Kept))]_vars

C5_Witness ==
  /\ script = "geocoding_bank"
  /\ pc = "while"
  /\ sp_requests = <<1>>
  /\ current_page = 2
  /\ data.result = "items"
  /\ Len(data.items) = 2
  /\ ~C_AnyCaseAtm(data.items[1].title) /\ C_SeoulRoad(data.items[1])
  /\ "point" \notin DOMAIN data.items[1]
  /\ C5_Kept(data.items[2])
  /\ Len(all_items) = 1

\* C5 as claimed: on a page where no item raises, the items added are exactly
\* those without "ATM" in the title whose road address contains the region
\* name, with or without a point.
C5_Original ==
  [][(C_ProcessItems /\ C_Reached(data.items) = data.items) =>
       Len(all_items') - Len(all_items)
         = Len(SelectSeq(data.items,
                         LAMBDA it : ~C_AnyCaseAtm(it.title) /\ C_SeoulRoad(it)))]_vars

\* C6: the pages requested by one search_place call are 1, 2, 3, ... in order,
\* each once; the total N is the one page 1 reports and is not read again; a
\* pass that does not break (items or not) moves to the next index; never more
\* than N requests are made, and exactly N when the loop runs out.
C6_ExactPagination ==
  /\ [](script = "geocoding_bank" =>
          /\ sp_requests = [i \in 1..Len(sp_requests) |-> i]
          /\ (pc = "while" /\ sp_requests # <<>>) =>
                /\ current_page = Len(sp_requests) + 1
                /\ Len(sp_requests) <= total_pages
          /\ (pc = "while" /\ sp_requests # <<>> /\ current_page > total_pages) =>
                Len(sp_requests) = total_pages
          /\ pc = "process" => Len(sp_requests) = current_page)
  /\ [][(script = "geocoding_bank" /\ pc = "process") =>
          total_pages' = IF current_page = 1 /\ data.kind = "json" /\ data.status = "OK"
                           THEN data.total ELSE total_pages]_vars

C6_Witness ==
  /\ script = "geocoding_bank"
  /\ pc = "while"
  /\ total_pages = 3
  /\ sp_requests = <<1, 2, 3>>
  /\ current_page = 4
  /\ data.kind = "json" /\ data.status = "OK" /\ data.result = "none"

\* ---- page failures ----
Exceptions == {"net_error", "json_error", "sys_error"}
RECURSIVE C_Flatten(_)
C_Flatten(pages) ==
  IF pages = <<>> THEN <<>> ELSE pages[1].resp.rows \o C_Flatten(Tail(pages))

C_Terminal(resp) == ~(resp.kind = "json" /\ resp.body = "service" /\ resp.rows # <<>>)
C_HasRequiredColumn(rows) ==
  \E i \in 1..Len(rows) :
    DOMAIN rows[i] \cap {"MGTNO", "OPNSFTEAMNM", "KIOSKNM", "ESBPLCADDR"} # {}

\* C8 (amended): a reply with zero rows, an error status or an exception ends
\* fetch_all_kiosk_data at once (it is the last request), and the rows of the
\* earlier replies are all returned, in order; main then writes one line per
\* accumulated row, in the same order, PROVIDED at least one row carries one
\* of the four selected columns; when none does, main writes no file.
C8_StopAndKeep ==
  script = "public_api" =>
    /\ \A i \in 1..Len(api_trace) :
         /\ api_trace[i].start_index = 1 + (i - 1) * 1000
         /\ C_Terminal(api_trace[i].resp) =>
              i = Len(api_trace) /\ pc \in {"returned", "done"}
    /\ all_data_rows = C_Flatten(api_trace)
    /\ pc # "done" => ~outfile.exists
    /\ (pc = "done" /\ keyFile = "present") =>
         IF C_HasRequiredColumn(all_data_rows)
           THEN /\ outfile.exists
                /\ Len(outfile.rows) = Len(all_data_rows)
                /\ \A i \in 1..Len(all_data_rows) :
                     "MGTNO" \in DOMAIN all_data_rows[i] =>
                        outfile.rows[i][1] = all_data_rows[i].MGTNO
           ELSE ~outfile.exists

C8_Witness ==
  /\ script = "public_api"
  /\ pc = "done"
  /\ Len(api_trace) = 3
  /\ api_trace[3].resp.kind = "json"
  /\ api_trace[3].resp.body = "service"
  /\ api_trace[3].resp.rows = <<>>
  /\ Len(all_data_rows) = 4
  /\ outfile.exists
  /\ Len(outfile.rows) = 4

\* C8 as claimed: whatever was accumulated is written by main.
C8_Original ==
  (script = "public_api" /\ pc = "done" /\ all_data_rows # <<>>) =>
     outfile.exists /\ Len(outfile.rows) = Len(all_data_rows)

\* ---- credentials ----
\* C9: with the credential file absent, every script that reads one issues no
\* network request and creates no output file; geocoding_xy, geocoding_public
\* and public_api return at once, geocoding_bank falls through its query loop
\* at the first use of the unassigned key.  The same holds for a missing input
\* table in the two geocoding scripts.
C9_NoKeyNoNetwork ==
  /\ (script \in KeyScripts /\ keyFile = "absent") =>
        /\ n_requests = 0
        /\ ~outfile.exists
        /\ pc \in (IF script = "geocoding_bank"
                     THEN {"read_key", "loop", "write", "done"}
                     ELSE {"read_key", "done"})
  /\ (script \in GeoScripts /\ inputFile = "absent") =>
        /\ n_requests = 0
        /\ ~outfile.exists
        /\ pc \in {"read_key", "read_input", "done"}

C9_Witness ==
  /\ script = "geocoding_bank"
  /\ keyFile = "absent"
  /\ pc = "done"
  /\ key = UNBOUND

\* ---- crawler ----
\* C10: every page of the range is submitted exactly once, in page order; the
\* concatenation and the CSV write happen only after every submitted fetch has
\* finished, under every interleaving of the pool threads; main keeps the
\* frames in the order the futures completed, and a None or empty result is
\* never in the list that is concatenated.
C10_JoinBeforeConcat ==
  script = "kiosk_crawler" =>
    /\ Submitted = start_page..(start_page + Cardinality(Submitted) - 1)
    /\ pc # "submit" /\ pc # "start" => Submitted = page_range
    /\ pc \in {"start", "submit"} => collected = 0
    /\ Len(completed) = Cardinality({ p \in page_range : task[p] = "done" })
    /\ \A i, j \in 1..Len(completed) : i # j => completed[i] # completed[j]
    /\ Cardinality(Running) <= max_workers
    /\ all_dfs = SelectSeq(SubSeq(completed, 1, collected),
                           LAMBDA p : result[p] = "df")
    /\ pc \in {"concat", "done"} =>
         /\ \A p \in page_range : task[p] = "done"
         /\ collected = Cardinality(page_range)
    /\ pc # "done" => ~outfile.exists
    /\ pc = "done" => outfile = IF all_dfs = <<>> THEN NoFile ELSE CsvFile(all_dfs)

C10_Witness ==
  /\ script = "kiosk_crawler"
  /\ pc = "done"
  /\ all_dfs = <<2, 1>>
  /\ result[3] = "None"
  /\ outfile.exists

(* --------------------------------- C11 --------------------------------- *)
\* the pages whose extract_page call is running on a worker thread right now
C_Concurrent == { p \in page_range : task[p] = "running" }

\* C11 (what the code does): main creates exactly one HTTP session, with one
\* retry policy, and hands that same session to every submitted extract_page
\* task; apart from the session each task works on its own page index and
\* writes only its own return value.
C11_SharedSession ==
  script = "kiosk_crawler" =>
    /\ session <= 1
    /\ \A p \in page_range :
         /\ task[p] # "new" => (session = 1 /\ task_session[p] = session)
         /\ (result[p] # "pending") <=> (task[p] = "done")

\* C11 witness: two extract_page tasks run at the same time on one session
C11_Witness ==
  /\ script = "kiosk_crawler"
  /\ \E p, q \in C_Concurrent :
       p # q /\ task_session[p] = task_session[q] /\ task_session[p] = 1

\* C11: at no point are two concurrently running extract_page tasks using
\* the same session object
C11_Original ==
  script = "kiosk_crawler" =>
    \A p, q \in C_Concurrent : p # q => task_session[p] # task_session[q]

(* --------------------------------- C12 --------------------------------- *)
\* the ROAD response of the current query is status OK and carries an x and a y
C_RoadOkWithPair ==
  /\ Len(trace) >= 1
  /\ trace[1].type = "ROAD"
  /\ trace[1].resp.kind = "json"
  /\ trace[1].resp.status = "OK"
  /\ trace[1].resp.x # "None"
  /\ trace[1].resp.y # "None"

\* C12: whenever the ROAD response is status OK with a coordinate pair, zero
\* values included, get_coordinate returns exactly that pair, untransformed,
\* and makes no PARCEL request.
C12_Original ==
  (Returned /\ C_RoadOkWithPair)
     => /\ Len(trace) = 1
        /\ ret = <<trace[1].resp.x, trace[1].resp.y>>

\* C12 witness: the ROAD response is OK with x = 0 and a y, a PARCEL request
\* follows and get_coordinate returns something other than the ROAD pair
C12_Witness ==
  /\ Returned
  /\ C_RoadOkWithPair
  /\ trace[1].resp.x = "0"
  /\ trace[1].resp.y = "37.5"
  /\ Len(trace) = 2
  /\ trace[2].type = "PARCEL"
  /\ ret # <<trace[1].resp.x, trace[1].resp.y>>

(* --------------------------------- C13 --------------------------------- *)
\* a coordinate value that is present: neither missing, nor 0, nor empty
C_Present(v) == v # "None" /\ v # "0" /\ v # ""

\* the ROAD attempt ended in NOT_FOUND, or in OK with a missing/falsy x or y
C_RoadFallsBack ==
  /\ trace[1].resp.kind = "json"
  /\ \/ trace[1].resp.status = "NOT_FOUND"
     \/ /\ trace[1].resp.status = "OK"
        /\ ~(C_Present(trace[1].resp.x) /\ C_Present(trace[1].resp.y))

\* C13: each query of get_coordinate issues at most two requests, ROAD first
\* and PARCEL second, and none for an empty or NaN address; the PARCEL request
\* is issued exactly when the ROAD attempt ended in NOT_FOUND or in OK with a
\* missing/falsy x or y; and the call returns either a pair with both values
\* present or (None, None), never a pair with one value present.
C13_RequestsAndOutcomes ==
  script \in GeoScripts =>
    /\ Len(trace) <= 2
    /\ Len(trace) >= 1 => trace[1].type = "ROAD"
    /\ Len(trace) = 2 => (trace[2].type = "PARCEL" /\ C_RoadFallsBack)
    /\ (pc = "request" /\ Len(trace) = 1) => C_RoadFallsBack
    /\ Returned =>
         /\ table[index].addr \in {"", "NaN"} => trace = <<>>
         /\ table[index].addr \notin {"", "NaN"} =>
              /\ Len(trace) >= 1
              /\ (Len(trace) = 2) <=> C_RoadFallsBack
         /\ \/ ret = <<"None", "None">>
            \/ C_Present(ret[1]) /\ C_Present(ret[2])

\* C13 witness: ROAD answers OK with x = 0, the PARCEL request is made and
\* resolves the query to a pair with both values present
C13_Witness ==
  /\ Returned
  /\ Len(trace) = 2
  /\ trace[1].resp.status = "OK"
  /\ trace[1].resp.x = "0"
  /\ trace[2].type = "PARCEL"
  /\ trace[2].resp.status = "OK"
  /\ C_Present(ret[1]) /\ C_Present(ret[2])

(* ---------------------------- specification ---------------------------- *)
Init ==
  /\ script \in Scripts
  /\ IF script \in KeyScripts THEN keyFile \in {"present", "absent"}
                            ELSE keyFile = None
  /\ IF script \in GeoScripts
       THEN inputFile \in {"present", "absent"} /\ table \in Tables
       ELSE inputFile = None /\ table = <<>>
  /\ pc = IF script \in KeyScripts THEN "read_key" ELSE "start"
  /\ key = UNBOUND
  /\ index = 0
  /\ attempt = 0
  /\ data = NoResponse
  /\ trace = <<>>
  /\ ret = <<None, None>>
  /\ all_results_list = <<>>
  /\ n_requests = 0
  /\ outfile = NoFile
  /\ query_i = 0
  /\ current_page = 0
  /\ total_pages = 0
  /\ all_items = <<>>
  /\ sp_requests = <<>>
  /\ start_index = 0
  /\ all_data_rows = <<>>
  /\ api_trace = <<>>
  /\ session = 0
  /\ task = [p \in page_range |-> "new"]
  /\ task_session = [p \in page_range |-> 0]
  /\ result = [p \in page_range |-> "pending"]
  /\ completed = <<>>
  /\ collected = 0
  /\ all_dfs = <<>>

Next ==
  \/ geo_read_key
  \/ geo_read_input
  \/ geo_next_row
  \/ get_coordinate_attempt
  \/ geo_append
  \/ geo_write
  \/ bank_read_key
  \/ bank_next_query
  \/ search_place_request
  \/ search_place_process
  \/ search_place_return
  \/ bank_write
  \/ api_read_key
  \/ fetch_all_kiosk_data_page
  \/ api_main_write
  \/ crawler_open
  \/ crawler_submit
  \/ worker_start
  \/ worker_finish
  \/ crawler_collect
  \/ crawler_join
  \/ crawler_write

Spec == Init /\ [][Next]_vars

=============================================================================
